---- MODULE Spec2Model ----
(***************************************************************************)
(* A model of TICTACAI.py (class UltimateTicTacToeAI): the 3x3 board, the  *)
(* win detection, the minimax search with alpha-beta pruning, the four     *)
(* difficulty tiers built on it, and the game loop of run().               *)
(*                                                                         *)
(* The board is the list self.board, indexed 0..8.  The search and the     *)
(* probes of the tiers write the board in place and write it back; the     *)
(* operators below thread the board through every call and return the      *)
(* board the call leaves behind, so that "the board is restored" is a      *)
(* property of the model and not an assumption.                            *)
(***************************************************************************)
EXTENDS Integers, Sequences, FiniteSets, TLC

VARIABLES
  board,            \* self.board
  current_winner,   \* self.current_winner ("None", "X" or "O")
  difficulty,       \* self.difficulty
  nodes_explored,   \* self.nodes_explored
  ai_wins,          \* self.ai_wins
  human_wins,       \* self.human_wins
  ties,             \* self.ties
  game_history,     \* self.game_history
  game_id,          \* self.game_id
  current_player,   \* run(): current_player
  moves,            \* run(): moves
  pc,               \* the position of the caller (run(), or a direct caller)
  last              \* the last call observed: its arguments and its result

vars == <<board, current_winner, difficulty, nodes_explored, ai_wins, human_wins,
          ties, game_history, game_id, current_player, moves, pc, last>>

stats == <<ai_wins, human_wins, ties, game_history, game_id>>

----------------------------------------------------------------------------
(* Values                                                                  *)

Empty == " "
ai_player == "X"
human_player == "O"
None == "None"
Letters == {ai_player, human_player}
Cells == 0..8
Tiers == {"easy", "medium", "hard", "unbeatable"}

\* math.inf: every score lies in -10..10
Inf == 100

\* [' ' for _ in range(9)]
EmptyBoard == [i \in Cells |-> Empty]

\* every assignment of ' ', 'X', 'O' to the 9 cells
AllBoards == [Cells -> {Empty, "X", "O"}]

NoCall == [op |-> "none"]

\* the boards searched twice hold at most MaxEmpty free cells
MaxEmpty == 9

----------------------------------------------------------------------------
(* Board queries                                                           *)

\* [i for i, spot in enumerate(self.board) if spot == ' '], ascending
available_moves(b) == SelectSeq(<<0, 1, 2, 3, 4, 5, 6, 7, 8>>, LAMBDA i : b[i] = Empty)

\* ' ' in self.board
empty_squares(b) ==
  \/ b[0] = Empty \/ b[1] = Empty \/ b[2] = Empty
  \/ b[3] = Empty \/ b[4] = Empty \/ b[5] = Empty
  \/ b[6] = Empty \/ b[7] = Empty \/ b[8] = Empty

\* self.board.count(' ')
num_empty_squares(b) == Cardinality({i \in Cells : b[i] = Empty})

\* mutant: the row and the column only
check_winner_no_diagonals(b, square, letter) ==
  LET row_ind == square \div 3
      col_ind == square % 3
  IN \/ \A i \in 0..2 : b[row_ind * 3 + i] = letter
     \/ \A i \in 0..2 : b[col_ind + i * 3] = letter

\* the row, the column and (on even squares only) the two diagonals
check_winner(b, square, letter) ==
  LET row_ind == square \div 3
      col_ind == square % 3
  IN \/ \A i \in 0..2 : b[row_ind * 3 + i] = letter
     \/ \A i \in 0..2 : b[col_ind + i * 3] = letter
     \/ /\ square % 2 = 0
        /\ \/ \A i \in {0, 4, 8} : b[i] = letter
           \/ \A i \in {2, 4, 6} : b[i] = letter

\* any of the 3 rows, 3 columns, 2 diagonals (the loops over range(3), unrolled)
check_winner_any(b, letter) ==
  \/ b[0] = letter /\ b[1] = letter /\ b[2] = letter
  \/ b[3] = letter /\ b[4] = letter /\ b[5] = letter
  \/ b[6] = letter /\ b[7] = letter /\ b[8] = letter
  \/ b[0] = letter /\ b[3] = letter /\ b[6] = letter
  \/ b[1] = letter /\ b[4] = letter /\ b[7] = letter
  \/ b[2] = letter /\ b[5] = letter /\ b[8] = letter
  \/ b[0] = letter /\ b[4] = letter /\ b[8] = letter
  \/ b[2] = letter /\ b[4] = letter /\ b[6] = letter

\* self.board[move] = letter (the in-place write of the search and the probes)
place(b, move, letter) == [b EXCEPT ![move] = letter]

\* mutant: the mark is left on the board
revert_forgotten(b, move) == b

\* self.board[move] = ' '
revert(b, move) == [b EXCEPT ![move] = Empty]

\* mutant: no test of the cell
make_move_overwrite(b, winner, square, letter) ==
  LET b1 == place(b, square, letter)
  IN [board |-> b1,
      current_winner |-> IF check_winner(b1, square, letter) THEN letter ELSE winner,
      ret |-> TRUE]

\* make_move: the board and the winner it leaves, and what it returns
make_move(b, winner, square, letter) ==
  IF b[square] = Empty
  THEN LET b1 == place(b, square, letter)
       IN [board |-> b1,
           current_winner |-> IF check_winner(b1, square, letter) THEN letter ELSE winner,
           ret |-> TRUE]
  ELSE [board |-> b, current_winner |-> winner, ret |-> FALSE]

----------------------------------------------------------------------------
(* minimax.  A call returns the score, the move, the number of calls made  *)
(* (each call adds 1 to self.nodes_explored) and the board it leaves: a    *)
(* loop writes self.board[move], recurses on the board so written, and     *)
(* writes ' ' back into the board the recursion left.                      *)

\* mutant: a win scores 10 at any depth
score_win_flat(depth) == 10

\* a board won by X, at this depth: "return 10 - depth, -1"
score_win(depth) == 10 - depth

\* mutant: a loss scores -10 at any depth
score_loss_flat(depth) == -10

\* mutant: a board won by O scored as a board won by X
score_loss_as_win(depth) == 10 - depth

\* a board won by O: "return -10 + depth, -1"
score_loss(depth) == -10 + depth

\* mutant: the loop breaks one point early
cutoff_early(alpha, beta) == beta <= alpha + 1

\* "if beta <= alpha: break"
cutoff(alpha, beta) == beta <= alpha

RECURSIVE minimax(_, _, _, _, _, _)
RECURSIVE max_loop(_, _, _, _, _, _, _, _, _, _)
RECURSIVE min_loop(_, _, _, _, _, _, _, _, _, _)

\* the maximizing branch's "for move in self.available_moves()", from its
\* i-th move on; alpha is the loop's running alpha, nodes the calls so far
max_loop(b, depth, available, i, best_score, best_move, alpha, beta, use_alpha_beta, nodes) ==
  IF i > Len(available)
  THEN [score |-> best_score, move |-> best_move, nodes |-> nodes, board |-> b]
  ELSE LET move == available[i]
           r == minimax([b EXCEPT ![move] = "X"], depth + 1, FALSE, alpha, beta, use_alpha_beta)
           b2 == [r.board EXCEPT ![move] = Empty]
           a2 == IF use_alpha_beta /\ r.score > alpha THEN r.score ELSE alpha   \* max(alpha, score)
           n2 == nodes + r.nodes
           rest(bs, bm) ==
             IF use_alpha_beta /\ cutoff(a2, beta)
             THEN [score |-> bs, move |-> bm, nodes |-> n2, board |-> b2]
             ELSE max_loop(b2, depth, available, i + 1, bs, bm, a2, beta, use_alpha_beta, n2)
       IN IF r.score > best_score THEN rest(r.score, move) ELSE rest(best_score, best_move)

\* the minimizing branch's loop
min_loop(b, depth, available, i, best_score, best_move, alpha, beta, use_alpha_beta, nodes) ==
  IF i > Len(available)
  THEN [score |-> best_score, move |-> best_move, nodes |-> nodes, board |-> b]
  ELSE LET move == available[i]
           r == minimax([b EXCEPT ![move] = "O"], depth + 1, TRUE, alpha, beta, use_alpha_beta)
           b2 == [r.board EXCEPT ![move] = Empty]
           be2 == IF use_alpha_beta /\ r.score < beta THEN r.score ELSE beta    \* min(beta, score)
           n2 == nodes + r.nodes
           rest(bs, bm) ==
             IF use_alpha_beta /\ cutoff(alpha, be2)
             THEN [score |-> bs, move |-> bm, nodes |-> n2, board |-> b2]
             ELSE min_loop(b2, depth, available, i + 1, bs, bm, alpha, be2, use_alpha_beta, n2)
       IN IF r.score < best_score THEN rest(r.score, move) ELSE rest(best_score, best_move)

minimax(b, depth, is_maximizing, alpha, beta, use_alpha_beta) ==
  IF check_winner_any(b, "X")
  THEN [score |-> score_win(depth), move |-> -1, nodes |-> 1, board |-> b]
  ELSE IF check_winner_any(b, "O")
  THEN [score |-> score_loss(depth), move |-> -1, nodes |-> 1, board |-> b]
  ELSE IF ~empty_squares(b)
  THEN [score |-> 0, move |-> -1, nodes |-> 1, board |-> b]
  ELSE IF is_maximizing
  THEN max_loop(b, depth, available_moves(b), 1, -Inf, -1, alpha, beta, use_alpha_beta, 1)
  ELSE min_loop(b, depth, available_moves(b), 1, Inf, -1, alpha, beta, use_alpha_beta, 1)

----------------------------------------------------------------------------
(* The four tiers.  A decision is a record: how it ended ("return" or the  *)
(* exception raised), the move returned, the board and the node counter    *)
(* it leaves, and the number of minimax calls it made ("visits").  A tier  *)
(* is the set of the decisions it can come to, over its random draws.      *)

Returned(move, b, nodes, visits) ==
  [outcome |-> "return", move |-> move, board |-> b, nodes |-> nodes, visits |-> visits]

\* random.choice(seq): any element; IndexError on an empty sequence
random_choice(choices, b, nodes) ==
  IF choices = {}
  THEN {[outcome |-> "IndexError", move |-> -1, board |-> b, nodes |-> nodes, visits |-> 0]}
  ELSE {Returned(m, b, nodes, 0) : m \in choices}

Range(seq) == {seq[i] : i \in 1..Len(seq)}

\* "for move in available: place letter; if check_winner: revert, return
\* move; revert", from the i-th move on
RECURSIVE probe(_, _, _, _)

\* mutant: the early return leaves the probed mark on the board
probe_return_unreverted(b, available, i, letter) ==
  IF i > Len(available)
  THEN [found |-> FALSE, move |-> -1, board |-> b]
  ELSE LET move == available[i]
           b1 == place(b, move, letter)
       IN IF check_winner(b1, move, letter)
          THEN [found |-> TRUE, move |-> move, board |-> b1]
          ELSE probe(revert(b1, move), available, i + 1, letter)

probe(b, available, i, letter) ==
  IF i > Len(available)
  THEN [found |-> FALSE, move |-> -1, board |-> b]
  ELSE LET move == available[i]
           b1 == place(b, move, letter)
       IN IF check_winner(b1, move, letter)
          THEN [found |-> TRUE, move |-> move, board |-> revert(b1, move)]
          ELSE probe(revert(b1, move), available, i + 1, letter)

\* mutant: the probes run whatever the draw
get_ai_move_easy_always_probes(b, nodes, lucky) ==
  LET available == available_moves(b)
      win == probe(b, available, 1, "X")
      block == probe(win.board, available, 1, "O")
  IN IF win.found THEN {Returned(win.move, win.board, nodes, 0)}
     ELSE IF block.found THEN {Returned(block.move, block.board, nodes, 0)}
     ELSE random_choice(Range(available), block.board, nodes)

\* lucky is the draw "random.random() < 0.3"
get_ai_move_easy(b, nodes, lucky) ==
  LET available == available_moves(b)
      win == probe(b, available, 1, "X")
      block == probe(win.board, available, 1, "O")
  IN IF lucky /\ win.found THEN {Returned(win.move, win.board, nodes, 0)}
     ELSE IF lucky /\ block.found THEN {Returned(block.move, block.board, nodes, 0)}
     ELSE random_choice(Range(available), IF lucky THEN block.board ELSE b, nodes)

\* mutant: the centre taken before the block is looked for
get_ai_move_medium_centre_first(b, nodes) ==
  LET available == available_moves(b)
      win == probe(b, available, 1, "X")
      block == probe(win.board, available, 1, "O")
      available_corners == {0, 2, 6, 8} \cap Range(available)
      available_edges == {1, 3, 5, 7} \cap Range(available)
  IN IF win.found THEN {Returned(win.move, win.board, nodes, 0)}
     ELSE IF 4 \in Range(available) THEN {Returned(4, win.board, nodes, 0)}
     ELSE IF block.found THEN {Returned(block.move, block.board, nodes, 0)}
     ELSE IF available_corners # {} THEN random_choice(available_corners, block.board, nodes)
     ELSE IF available_edges # {} THEN random_choice(available_edges, block.board, nodes)
     ELSE random_choice(Range(available), block.board, nodes)

get_ai_move_medium(b, nodes) ==
  LET available == available_moves(b)
      win == probe(b, available, 1, "X")
      block == probe(win.board, available, 1, "O")
      available_corners == {0, 2, 6, 8} \cap Range(available)
      available_edges == {1, 3, 5, 7} \cap Range(available)
  IN IF win.found THEN {Returned(win.move, win.board, nodes, 0)}
     ELSE IF block.found THEN {Returned(block.move, block.board, nodes, 0)}
     ELSE IF 4 \in Range(available) THEN {Returned(4, block.board, nodes, 0)}
     ELSE IF available_corners # {} THEN random_choice(available_corners, block.board, nodes)
     ELSE IF available_edges # {} THEN random_choice(available_edges, block.board, nodes)
     ELSE random_choice(Range(available), block.board, nodes)

\* mutant: the opening shortcut taken with 7 free cells too
get_ai_move_hard_shortcut7(b, nodes) ==
  LET available == available_moves(b)
      r == minimax(b, 0, TRUE, -Inf, Inf, TRUE)
  IN IF Len(available) >= 7
     THEN IF 4 \in Range(available)
          THEN {Returned(4, b, nodes, 0)}
          ELSE random_choice({0, 2, 6, 8}, b, nodes)
     ELSE {Returned(r.move, r.board, nodes + r.nodes, r.nodes)}

\* mutant: no opening shortcut, the search on every board
get_ai_move_hard_no_shortcut(b, nodes) ==
  LET r == minimax(b, 0, TRUE, -Inf, Inf, TRUE)
  IN {Returned(r.move, r.board, nodes + r.nodes, r.nodes)}

\* mutant: the shortcut answers a taken centre with an edge
get_ai_move_hard_edge_reply(b, nodes) ==
  LET available == available_moves(b)
      r == minimax(b, 0, TRUE, -Inf, Inf, TRUE)
  IN IF Len(available) >= 8
     THEN IF 4 \in Range(available)
          THEN {Returned(4, b, nodes, 0)}
          ELSE random_choice({1, 3, 5, 7}, b, nodes)
     ELSE {Returned(r.move, r.board, nodes + r.nodes, r.nodes)}

\* the counter is not reset: the search adds to what it holds
get_ai_move_hard(b, nodes) ==
  LET available == available_moves(b)
      r == minimax(b, 0, TRUE, -Inf, Inf, TRUE)
  IN IF Len(available) >= 8
     THEN IF 4 \in Range(available)
          THEN {Returned(4, b, nodes, 0)}
          ELSE random_choice({0, 2, 6, 8}, b, nodes)
     ELSE {Returned(r.move, r.board, nodes + r.nodes, r.nodes)}

\* mutant: the search called as the minimizer
get_ai_move_unbeatable_minimizing(b, nodes) ==
  LET r == minimax(b, 0, FALSE, -Inf, Inf, TRUE)
  IN {Returned(r.move, r.board, 0 + r.nodes, r.nodes)}

\* "self.nodes_explored = 0", then the search
get_ai_move_unbeatable(b, nodes) ==
  LET r == minimax(b, 0, TRUE, -Inf, Inf, TRUE)
  IN {Returned(r.move, r.board, 0 + r.nodes, r.nodes)}

get_ai_move(b, tier, nodes, lucky) ==
  IF tier = "easy" THEN get_ai_move_easy(b, nodes, lucky)
  ELSE IF tier = "medium" THEN get_ai_move_medium(b, nodes)
  ELSE IF tier = "hard" THEN get_ai_move_hard(b, nodes)
  ELSE get_ai_move_unbeatable(b, nodes)

\* the draws a decision of the tier consumes
Draws(tier) == IF tier = "easy" THEN BOOLEAN ELSE {FALSE}

----------------------------------------------------------------------------
(* evaluate_board.  It reads the board and writes nothing.                 *)

\* "lines": rows, columns, diagonals, in the order of the list
lines == <<<<0, 1, 2>>, <<3, 4, 5>>, <<6, 7, 8>>,
           <<0, 3, 6>>, <<1, 4, 7>>, <<2, 5, 8>>,
           <<0, 4, 8>>, <<2, 4, 6>>>>

\* values.count(value) for values = [self.board[i] for i in line]
count(b, line, value) ==
  (IF b[line[1]] = value THEN 1 ELSE 0) + (IF b[line[2]] = value THEN 1 ELSE 0)
    + (IF b[line[3]] = value THEN 1 ELSE 0)

\* the if/elif chain of the loop over lines: what one line adds to score
line_points(b, line) ==
  LET x_count == count(b, line, "X")
      o_count == count(b, line, "O")
      empty_count == count(b, line, Empty)
  IN IF x_count = 2 /\ empty_count = 1 THEN 10
     ELSE IF o_count = 2 /\ empty_count = 1 THEN -10
     ELSE IF x_count = 1 /\ empty_count = 2 THEN 1
     ELSE IF o_count = 1 /\ empty_count = 2 THEN -1
     ELSE 0

\* "for line in lines: ...", from the i-th line on
RECURSIVE lines_score(_, _, _)
lines_score(b, i, score) ==
  IF i > Len(lines) THEN score
  ELSE lines_score(b, i + 1, score + line_points(b, lines[i]))

\* the centre bonus
centre_points(b) == IF b[4] = "X" THEN 3 ELSE IF b[4] = "O" THEN -3 ELSE 0

\* "for corner in corners: ...", from the i-th corner on
RECURSIVE corners_score(_, _, _)
corners_score(b, i, score) ==
  LET corners == <<0, 2, 6, 8>>
  IN IF i > Len(corners) THEN score
     ELSE corners_score(b, i + 1,
                        score + (IF b[corners[i]] = "X" THEN 2
                                 ELSE IF b[corners[i]] = "O" THEN -2 ELSE 0))

\* mutant: O's line looked for before X's
evaluate_board_o_first(b) ==
  IF check_winner_any(b, "O") THEN -100
  ELSE IF check_winner_any(b, "X") THEN 100
  ELSE corners_score(b, 1, lines_score(b, 1, 0) + centre_points(b))

\* mutant: no centre bonus
evaluate_board_no_centre(b) ==
  IF check_winner_any(b, "X") THEN 100
  ELSE IF check_winner_any(b, "O") THEN -100
  ELSE corners_score(b, 1, lines_score(b, 1, 0))

evaluate_board(b) ==
  IF check_winner_any(b, "X") THEN 100
  ELSE IF check_winner_any(b, "O") THEN -100
  ELSE corners_score(b, 1, lines_score(b, 1, 0) + centre_points(b))

----------------------------------------------------------------------------
(* A decision on any board: get_ai_move() called on a constructed object   *)
(* whose board holds any assignment of marks.                              *)

Constructed ==
  /\ nodes_explored = 0
  /\ ai_wins = 0 /\ human_wins = 0 /\ ties = 0
  /\ game_history = <<>>
  /\ game_id = 1
  /\ moves = 0
  /\ last = NoCall

InitDecide ==
  /\ board \in AllBoards
  /\ difficulty \in Tiers
  /\ current_winner = None
  /\ pc = "call"
  /\ current_player = ai_player
  /\ Constructed

CallGetAIMove ==
  /\ pc = "call"
  /\ \E lucky \in Draws(difficulty) :
       \E d \in get_ai_move(board, difficulty, nodes_explored, lucky) :
         /\ board' = d.board
         /\ nodes_explored' = d.nodes
         /\ last' = [op |-> "get_ai_move", pre_board |-> board, lucky |-> lucky,
                     outcome |-> d.outcome, move |-> d.move, visits |-> d.visits]
         /\ pc' = IF d.outcome = "return" THEN "returned" ELSE "raised"
  /\ UNCHANGED <<current_winner, difficulty, stats, current_player, moves>>

NextDecide == CallGetAIMove

SpecDecide == InitDecide /\ [][NextDecide]_vars

----------------------------------------------------------------------------
(* run(): one game of the game loop, from the constructed object (no save  *)
(* file) to the recorded result.  The human's turn is any legal input.     *)

Init ==
  /\ board = EmptyBoard
  /\ difficulty = "unbeatable"
  /\ current_winner = None
  /\ pc = "start"
  /\ current_player = ai_player
  /\ Constructed

\* run(): self.change_difficulty()
change_difficulty ==
  /\ pc = "start"
  /\ \E choice \in Tiers : difficulty' = choice
  /\ pc' = "new_game"
  /\ UNCHANGED <<board, current_winner, nodes_explored, stats, current_player, moves, last>>

\* run(): self.reset_game(); moves = 0; "Who goes first?"
reset_game ==
  /\ pc = "new_game"
  /\ board' = EmptyBoard
  /\ current_winner' = None
  /\ game_id' = game_id + 1
  /\ moves' = 0
  /\ \E first \in Letters : current_player' = first
  /\ pc' = "playing"
  /\ UNCHANGED <<difficulty, nodes_explored, ai_wins, human_wins, ties, game_history, last>>

\* "while self.empty_squares() and not self.current_winner"
InGame == pc = "playing" /\ empty_squares(board) /\ current_winner = None

\* mutant: the player is not switched
other_player_same(player) == player

\* "current_player = self.human_player if current_player == self.ai_player
\* else self.ai_player"
other_player(player) == IF player = ai_player THEN human_player ELSE ai_player

\* one iteration of the game loop: a turn is played and "moves += 1"
take_turn == InGame /\ moves' = moves + 1

\* play_turn(human_player): a number 0..8 of a free cell, then make_move
play_turn_human ==
  /\ InGame
  /\ current_player = human_player
  /\ \E move \in Cells :
       /\ board[move] = Empty
       /\ LET m == make_move(board, current_winner, move, current_player)
          IN /\ board' = m.board
             /\ current_winner' = m.current_winner
  /\ moves' = moves + 1
  /\ current_player' = other_player(current_player)
  /\ last' = NoCall
  /\ UNCHANGED <<difficulty, nodes_explored, stats, pc>>

\* play_turn(human_player): 'q'
play_turn_quit ==
  /\ InGame
  /\ current_player = human_player
  /\ pc' = "quit"
  /\ UNCHANGED <<board, current_winner, difficulty, nodes_explored, stats, current_player,
                 moves, last>>

\* play_turn(ai_player): move = self.get_ai_move(); self.make_move(move, player).
\* A decision that raises, or that returns no cell, ends the loop in "fault".
play_turn_ai ==
  /\ InGame
  /\ current_player = ai_player
  /\ \E lucky \in Draws(difficulty) :
       \E d \in get_ai_move(board, difficulty, nodes_explored, lucky) :
         LET ok == d.outcome = "return" /\ d.move \in Cells
             m == make_move(d.board, current_winner, d.move, current_player)
         IN /\ board' = IF ok THEN m.board ELSE d.board
            /\ current_winner' = IF ok THEN m.current_winner ELSE current_winner
            /\ nodes_explored' = d.nodes
            /\ moves' = IF ok THEN moves + 1 ELSE moves
            /\ current_player' = IF ok THEN other_player(current_player) ELSE current_player
            /\ pc' = IF ok THEN pc ELSE "fault"
            /\ last' = [op |-> "get_ai_move", pre_board |-> board, lucky |-> lucky,
                        outcome |-> d.outcome, move |-> d.move, visits |-> d.visits]
  /\ UNCHANGED <<difficulty, stats>>

\* mutant: a full board is recorded as a tie before the winner is looked at
record_game_full_board_tie ==
  /\ pc = "playing"
  /\ ~(empty_squares(board) /\ current_winner = None)
  /\ LET winner == IF ~empty_squares(board) THEN "tie" ELSE current_winner
     IN /\ game_history' = Append(game_history,
                                  [id |-> game_id, difficulty |-> difficulty, moves |-> moves,
                                   winner |-> winner, board |-> board])
        /\ ai_wins' = IF winner = "X" THEN ai_wins + 1 ELSE ai_wins
        /\ human_wins' = IF winner = "O" THEN human_wins + 1 ELSE human_wins
        /\ ties' = IF winner \notin {"X", "O"} THEN ties + 1 ELSE ties
  /\ pc' = "over"
  /\ UNCHANGED <<board, current_winner, difficulty, nodes_explored, game_id, current_player,
                 moves, last>>

\* run(): winner = self.current_winner; self.record_game(moves, winner or 'tie')
record_game ==
  /\ pc = "playing"
  /\ ~(empty_squares(board) /\ current_winner = None)
  /\ LET winner == IF current_winner # None THEN current_winner ELSE "tie"
     IN /\ game_history' = Append(game_history,
                                  [id |-> game_id, difficulty |-> difficulty, moves |-> moves,
                                   winner |-> winner, board |-> board])
        /\ ai_wins' = IF winner = "X" THEN ai_wins + 1 ELSE ai_wins
        /\ human_wins' = IF winner = "O" THEN human_wins + 1 ELSE human_wins
        /\ ties' = IF winner \notin {"X", "O"} THEN ties + 1 ELSE ties
  /\ pc' = "over"
  /\ UNCHANGED <<board, current_winner, difficulty, nodes_explored, game_id, current_player,
                 moves, last>>

Next ==
  \/ change_difficulty
  \/ reset_game
  \/ play_turn_human
  \/ play_turn_quit
  \/ play_turn_ai
  \/ record_game

Spec == Init /\ [][Next]_vars

\* play_turn(human_player): 'd', self.change_difficulty(), and the prompt again
play_turn_difficulty ==
  /\ InGame
  /\ current_player = human_player
  /\ \E choice \in Tiers : difficulty' = choice
  /\ UNCHANGED <<board, current_winner, nodes_explored, stats, current_player, moves, pc, last>>

\* the game loop in which the human may change the tier between moves
NextGame == Next \/ play_turn_difficulty

(* The human answers the prompt in the end with a free cell or with 'q',   *)
(* so a game in progress gets its next turn or is left; a game that has    *)
(* ended is recorded.                                                      *)
SpecGame ==
  /\ Init /\ [][NextGame]_vars
  /\ WF_moves(take_turn)
  /\ WF_vars(record_game)

----------------------------------------------------------------------------
(* make_move(square, letter) called on any board, for any stored winner.   *)

InitMove ==
  /\ board \in AllBoards
  /\ current_winner \in {None} \cup Letters
  /\ difficulty = "unbeatable"
  /\ pc = "call"
  /\ current_player = ai_player
  /\ Constructed

CallMakeMove ==
  /\ pc = "call"
  /\ \E square \in Cells, letter \in Letters :
       LET m == make_move(board, current_winner, square, letter)
       IN /\ board' = m.board
          /\ current_winner' = m.current_winner
          /\ last' = [op |-> "make_move", pre_board |-> board, pre_winner |-> current_winner,
                      square |-> square, letter |-> letter, ret |-> m.ret]
  /\ pc' = "returned"
  /\ UNCHANGED <<difficulty, nodes_explored, stats, current_player, moves>>

NextMove == CallMakeMove

SpecMove == InitMove /\ [][NextMove]_vars

----------------------------------------------------------------------------
(* minimax(0, is_maximizing) called twice on the same board, with the full *)
(* window: first with use_alpha_beta=True, then with use_alpha_beta=False. *)

SearchBoards == {b \in AllBoards : num_empty_squares(b) <= MaxEmpty}

InitSearch ==
  /\ board \in SearchBoards
  /\ current_winner = None
  /\ difficulty = "unbeatable"
  /\ pc = "call"
  /\ current_player = ai_player
  /\ Constructed

CallMinimaxPruned ==
  /\ pc = "call"
  /\ \E is_maximizing \in BOOLEAN :
       \E r \in {minimax(board, 0, is_maximizing, -Inf, Inf, TRUE)} :
          /\ board' = r.board
          /\ nodes_explored' = nodes_explored + r.nodes
          /\ last' = [op |-> "minimax", pre_board |-> board, is_maximizing |-> is_maximizing,
                      pruned |-> <<r.score, r.move>>, pruned_nodes |-> r.nodes]
  /\ pc' = "searched"
  /\ UNCHANGED <<current_winner, difficulty, stats, current_player, moves>>

CallMinimaxFull ==
  /\ pc = "searched"
  /\ \E r \in {minimax(board, 0, last.is_maximizing, -Inf, Inf, FALSE)} :
        /\ board' = r.board
        /\ nodes_explored' = nodes_explored + r.nodes
        /\ last' = [op |-> "minimax_twice", pre_board |-> last.pre_board,
                    is_maximizing |-> last.is_maximizing, pruned |-> last.pruned,
                    pruned_nodes |-> last.pruned_nodes,
                    full |-> <<r.score, r.move>>, full_nodes |-> r.nodes]
  /\ pc' = "returned"
  /\ UNCHANGED <<current_winner, difficulty, stats, current_player, moves>>

NextSearch == CallMinimaxPruned \/ CallMinimaxFull

SpecSearch == InitSearch /\ [][NextSearch]_vars

----------------------------------------------------------------------------
(* One call of check_winner, of evaluate_board or of minimax on any board. *)
(* minimax is called at any depth a search could be at on the board: depth *)
(* counts the marks placed since the root, so it is at most the number of  *)
(* marks on the board.                                                     *)

InitQuery ==
  /\ board \in AllBoards
  /\ current_winner = None
  /\ difficulty = "unbeatable"
  /\ pc = "call"
  /\ current_player = ai_player
  /\ Constructed

CallCheckWinner ==
  /\ pc = "call"
  /\ \E square \in Cells, letter \in Letters :
       last' = [op |-> "check_winner", square |-> square, letter |-> letter,
                ret |-> check_winner(board, square, letter)]
  /\ pc' = "returned"
  /\ UNCHANGED <<board, current_winner, difficulty, nodes_explored, stats, current_player, moves>>

CallEvaluateBoard ==
  /\ pc = "call"
  /\ last' = [op |-> "evaluate_board", ret |-> evaluate_board(board)]
  /\ pc' = "returned"
  /\ UNCHANGED <<board, current_winner, difficulty, nodes_explored, stats, current_player, moves>>

CallMinimax ==
  /\ pc = "call"
  /\ \E depth \in 0..(9 - num_empty_squares(board)), is_maximizing \in BOOLEAN :
       \E r \in {minimax(board, depth, is_maximizing, -Inf, Inf, TRUE)} :
          /\ board' = r.board
          /\ nodes_explored' = nodes_explored + r.nodes
          /\ last' = [op |-> "minimax_at", pre_board |-> board, depth |-> depth,
                      is_maximizing |-> is_maximizing, score |-> r.score, move |-> r.move]
  /\ pc' = "returned"
  /\ UNCHANGED <<current_winner, difficulty, stats, current_player, moves>>

NextQuery == CallCheckWinner \/ CallEvaluateBoard \/ CallMinimax

SpecQuery == InitQuery /\ [][NextQuery]_vars

----------------------------------------------------------------------------
(* minimax, call by call.  The call stack is a sequence of frames, the     *)
(* root first; a frame holds the arguments and the locals of one call and  *)
(* where the call stands: "enter" (called, nothing run yet), "loop" (at    *)
(* the head of its for loop, before the i-th move) or "wait" (in its       *)
(* recursive call).  The board is self.board, written in place.  last      *)
(* holds the stack, and in ret the value the call that ended last          *)
(* returned, until its caller has taken it.                                *)

\* the boards a search is started on: the boards of the first two moves
RunBoards == {b \in AllBoards : num_empty_squares(b) >= 8}

NoRet == <<>>

Frame(depth, is_maximizing, alpha, beta) ==
  [at |-> "enter", depth |-> depth, is_maximizing |-> is_maximizing,
   alpha |-> alpha, beta |-> beta, available |-> <<>>, i |-> 1,
   best_score |-> 0, best_move |-> -1]

Top == last.stack[Len(last.stack)]

\* the stack with its top frame replaced
WithTop(frame) == [last.stack EXCEPT ![Len(last.stack)] = frame]

\* "return score, move": the top frame is left and the value handed down
Return(score, move) ==
  /\ last' = [last EXCEPT !.stack = SubSeq(last.stack, 1, Len(last.stack) - 1),
                          !.ret = <<score, move>>]
  /\ pc' = IF Len(last.stack) = 1 THEN "returned" ELSE pc

InitRun ==
  /\ board \in RunBoards
  /\ current_winner = None
  /\ difficulty = "unbeatable"
  /\ pc = "call"
  /\ current_player = ai_player
  /\ Constructed

\* self.minimax(0, is_maximizing): the root call, with the default window
minimax_root ==
  /\ pc = "call"
  /\ \E is_maximizing \in BOOLEAN :
       last' = [op |-> "minimax_run", pre_board |-> board, is_maximizing |-> is_maximizing,
                stack |-> <<Frame(0, is_maximizing, -Inf, Inf)>>, ret |-> NoRet]
  /\ pc' = "running"
  /\ UNCHANGED <<board, current_winner, difficulty, nodes_explored, stats, current_player, moves>>

\* lines 195-207 and 224-225: count the call, return on a finished board,
\* else set up the loop
minimax_enter ==
  /\ pc = "running"
  /\ Top.at = "enter"
  /\ nodes_explored' = nodes_explored + 1
  /\ IF check_winner_any(board, "X") THEN Return(score_win(Top.depth), -1)
     ELSE IF check_winner_any(board, "O") THEN Return(score_loss(Top.depth), -1)
     ELSE IF ~empty_squares(board) THEN Return(0, -1)
     ELSE /\ last' = [last EXCEPT !.stack =
                        WithTop([Top EXCEPT !.at = "loop",
                                            !.available = available_moves(board),
                                            !.i = 1,
                                            !.best_score = IF Top.is_maximizing THEN -Inf ELSE Inf,
                                            !.best_move = -1])]
          /\ pc' = pc
  /\ UNCHANGED <<board, current_winner, difficulty, stats, current_player, moves>>

\* the head of the for loop: no move left, "return best_score, best_move";
\* else write the mark and call minimax(depth + 1, not is_maximizing, ...)
minimax_descend ==
  /\ pc = "running"
  /\ Top.at = "loop"
  /\ IF Top.i > Len(Top.available)
     THEN /\ Return(Top.best_score, Top.best_move)
          /\ board' = board
     ELSE /\ board' = place(board, Top.available[Top.i],
                           IF Top.is_maximizing THEN "X" ELSE "O")
          /\ last' = [last EXCEPT !.stack =
                        Append(WithTop([Top EXCEPT !.at = "wait"]),
                               Frame(Top.depth + 1, ~Top.is_maximizing, Top.alpha, Top.beta)),
                                  !.ret = NoRet]
          /\ pc' = pc
  /\ UNCHANGED <<current_winner, difficulty, nodes_explored, stats, current_player, moves>>

\* after the recursive call: write ' ' back, keep the better score, move
\* alpha or beta, and break out of the loop (to the return) on a cutoff
minimax_resume ==
  /\ pc = "running"
  /\ Top.at = "wait"
  /\ last.ret # NoRet
  /\ board' = revert(board, Top.available[Top.i])
  /\ LET score == last.ret[1]
         move == Top.available[Top.i]
         better == IF Top.is_maximizing THEN score > Top.best_score ELSE score < Top.best_score
         best_score == IF better THEN score ELSE Top.best_score
         best_move == IF better THEN move ELSE Top.best_move
         alpha == IF Top.is_maximizing /\ score > Top.alpha THEN score ELSE Top.alpha
         beta == IF ~Top.is_maximizing /\ score < Top.beta THEN score ELSE Top.beta
     IN IF cutoff(alpha, beta)
        THEN Return(best_score, best_move)
        ELSE /\ last' = [last EXCEPT !.stack =
                           WithTop([Top EXCEPT !.at = "loop", !.i = Top.i + 1,
                                               !.best_score = best_score,
                                               !.best_move = best_move,
                                               !.alpha = alpha, !.beta = beta]),
                                     !.ret = NoRet]
             /\ pc' = pc
  /\ UNCHANGED <<current_winner, difficulty, nodes_explored, stats, current_player, moves>>

NextRun == minimax_root \/ minimax_enter \/ minimax_descend \/ minimax_resume

\* a call that is made runs: the interpreter does not stop in mid-search
SpecRun == InitRun /\ [][NextRun]_vars /\ WF_vars(NextRun)

----------------------------------------------------------------------------
(* Self-play: X is moved by get_ai_move() at the configured tier, as in    *)
(* play_turn, and O by the same search called as the minimizer,            *)
(* minimax(0, False); the loop is the game loop of run().  Neither side    *)
(* waits for input, so a turn that can be taken is taken.                  *)

InitSelfPlay ==
  /\ board = EmptyBoard
  /\ difficulty \in Tiers
  /\ current_winner = None
  /\ current_player \in Letters
  /\ pc = "playing"
  /\ Constructed

self_play_o ==
  /\ InGame
  /\ current_player = human_player
  /\ \E r \in {minimax(board, 0, FALSE, -Inf, Inf, TRUE)} :
       \E m \in {make_move(r.board, current_winner, r.move, current_player)} :
          /\ board' = m.board
          /\ current_winner' = m.current_winner
          /\ nodes_explored' = nodes_explored + r.nodes
  /\ moves' = moves + 1
  /\ current_player' = other_player(current_player)
  /\ last' = NoCall
  /\ UNCHANGED <<difficulty, stats, pc>>

NextSelfPlay == play_turn_ai \/ self_play_o

(* Neither side waits: both disjuncts of NextSelfPlay are enabled whenever *)
(* InGame holds and it is their player's turn, and each counts one move,   *)
(* so fairness of the loop is fairness of take_turn.                       *)
SpecSelfPlay == InitSelfPlay /\ [][NextSelfPlay]_vars /\ WF_moves(take_turn)

----------------------------------------------------------------------------
(* The claims.                                                             *)

NoLine(b) == ~check_winner_any(b, "X") /\ ~check_winner_any(b, "O")

\* the free cells that complete a line of letter
Completing(b, letter) ==
  {c \in Cells : b[c] = Empty /\ check_winner_any([b EXCEPT ![c] = letter], letter)}

Lowest(S) == CHOOSE m \in S : \A n \in S : m <= n

\* the moves get_ai_move() can return on board b at a tier, over its draws
Moves(b, tier) ==
  {d.move : d \in UNION {get_ai_move(b, tier, 0, lucky) : lucky \in Draws(tier)}}

Decided == last.op = "get_ai_move"

\* a decision that looked for a win and a block: every tier but Easy's unlucky draw
Probing == Decided /\ (difficulty = "easy" => last.lucky)

\* C1: in a game of the game loop in which X is moved by the Unbeatable tier
\* and O by any legal input, O never has three marks in a line.
C1_UnbeatableNeverLoses ==
  difficulty = "unbeatable" =>
    ~check_winner_any(board, human_player) /\ current_winner # human_player

C1_Witness ==
  /\ pc = "over"
  /\ difficulty = "unbeatable"
  /\ moves = 9
  /\ game_history[1].winner = "tie"

\* C2: on every board, for either side to move, minimax at depth 0 with the
\* full window returns the same (score, move) with and without pruning.
C2_PruningEquivalence ==
  last.op = "minimax_twice" => last.pruned = last.full

C2_Witness ==
  /\ last.op = "minimax_twice"
  /\ last.pruned_nodes < last.full_nodes
  /\ last.pruned[2] \in Cells
  /\ last.pruned = last.full

\* C3: when get_ai_move returns, at any tier and on any board, every cell
\* holds the value it held when get_ai_move was called.
C3_BoardRestored ==
  (Decided /\ last.outcome = "return") => board = last.pre_board

\* a decision that returned from a probe, and one that searched
C3_Witness ==
  /\ Decided
  /\ last.outcome = "return"
  /\ difficulty = "medium"
  /\ Completing(last.pre_board, "X") = {}
  /\ last.move \in Completing(last.pre_board, "O")
  /\ board = last.pre_board

\* C4: at every tier a decision on a board with no free cell comes to a
\* no-move outcome (the move -1), raises nothing, and leaves the board as
\* it was.
C4_FullBoardNoMove ==
  (Decided /\ ~empty_squares(last.pre_board)) =>
    /\ last.outcome = "return"
    /\ last.move = -1
    /\ board = last.pre_board

\* C5, as claimed: on every board the Hard tier and the Unbeatable tier can
\* each return one move only.
C5_HardUnbeatableDeterministic ==
  (Decided /\ difficulty \in {"hard", "unbeatable"}) =>
    Moves(last.pre_board, difficulty) = {last.move}

\* C5, amended: the Unbeatable tier can return one move only on every
\* board; so can the Hard tier, except on a board with 8 free cells whose
\* centre is taken, where it can return each of the corners 0, 2, 6, 8.
C5_DeterministicButOpening ==
  (Decided /\ difficulty \in {"hard", "unbeatable"}) =>
    IF /\ difficulty = "hard"
       /\ num_empty_squares(last.pre_board) >= 8
       /\ last.pre_board[4] # Empty
    THEN Moves(last.pre_board, difficulty) = {0, 2, 6, 8}
    ELSE Moves(last.pre_board, difficulty) = {last.move}

C5_Witness ==
  /\ Decided
  /\ difficulty = "hard"
  /\ num_empty_squares(last.pre_board) = 8
  /\ last.pre_board[4] = "O"
  /\ last.move = 6

\* C6: from the empty board, with X moved by the search as maximizer and O
\* by the search as minimizer, the game comes to a full board on which
\* neither mark has a line.
DrawnBoard == ~empty_squares(board) /\ NoLine(board)

C6_SelfPlayDraws == (difficulty = "unbeatable") ~> DrawnBoard

C6_Witness ==
  /\ difficulty = "unbeatable"
  /\ DrawnBoard
  /\ moves = 9
  /\ current_winner = None

\* C7: on a board with no line where some free cell completes a line of X,
\* Medium, Easy on its lucky draw, Hard and Unbeatable return the lowest
\* such cell.
C7_ImmediateWin ==
  (Probing /\ NoLine(last.pre_board) /\ Completing(last.pre_board, "X") # {}) =>
    /\ last.outcome = "return"
    /\ last.move = Lowest(Completing(last.pre_board, "X"))

\* the search had a lower cell to try first, and more than one win to take
C7_Witness ==
  /\ Decided
  /\ difficulty = "unbeatable"
  /\ NoLine(last.pre_board)
  /\ Cardinality(Completing(last.pre_board, "X")) >= 2
  /\ last.pre_board[0] = Empty
  /\ last.move = Lowest(Completing(last.pre_board, "X"))
  /\ last.move > 0

\* C8: on a board with no line where no free cell completes a line of X
\* and exactly one free cell c completes a line of O, Medium, Easy on its
\* lucky draw, Hard and Unbeatable return c.
C8_Block ==
  (/\ Probing
   /\ NoLine(last.pre_board)
   /\ Completing(last.pre_board, "X") = {}
   /\ Cardinality(Completing(last.pre_board, "O")) = 1) =>
    /\ last.outcome = "return"
    /\ {last.move} = Completing(last.pre_board, "O")

\* the search blocked in a position it scores as lost
C8_Witness ==
  /\ Decided
  /\ difficulty = "hard"
  /\ NoLine(last.pre_board)
  /\ Completing(last.pre_board, "X") = {}
  /\ Cardinality(Completing(last.pre_board, "O")) = 1
  /\ last.pre_board[0] = Empty
  /\ {last.move} = Completing(last.pre_board, "O")
  /\ minimax(last.pre_board, 0, TRUE, -Inf, Inf, TRUE).score < 0

\* C9: the node counter read after a decision is the number of minimax
\* calls that decision made: 0 when it did not search, and never the sum
\* with those of earlier decisions.
C9_CounterIsPerDecision ==
  Decided => nodes_explored = last.visits

\* C10: make_move on a cell that is not free returns False and changes
\* neither the board nor current_winner; on a free cell it writes the letter
\* there, changes no other cell and returns True.
C10_MakeMove ==
  last.op = "make_move" =>
    IF last.pre_board[last.square] # Empty
    THEN /\ last.ret = FALSE
         /\ board = last.pre_board
         /\ current_winner = last.pre_winner
    ELSE /\ last.ret = TRUE
         /\ board[last.square] = last.letter
         /\ \A c \in Cells \ {last.square} : board[c] = last.pre_board[c]

C10_Witness ==
  /\ last.op = "make_move"
  /\ last.pre_board[last.square] = "O"
  /\ last.letter = "X"
  /\ last.pre_winner = None
  /\ last.ret = FALSE
  /\ board = last.pre_board

\* C11: in the game loop, at any tier, a decision taken on the AI's turn
\* returns (raises nothing) a number 0..8 of a cell that is free on the
\* board it was taken on, so make_move gets neither a taken cell nor -1.
C11_MoveIsFreeCell ==
  Decided =>
    /\ last.outcome = "return"
    /\ last.move \in Cells
    /\ last.pre_board[last.move] = Empty
    /\ pc # "fault"

\* a search of the Hard tier with three cells left
C11_Witness ==
  /\ Decided
  /\ difficulty = "hard"
  /\ last.visits > 0
  /\ num_empty_squares(last.pre_board) = 3
  /\ last.pre_board[last.move] = Empty
  /\ board[last.move] = ai_player

Free(b, S) == {c \in S : b[c] = Empty}

\* C13: on a board with a free cell and no line the Medium tier returns a
\* cell completing a line of X if there is one; else a cell completing a
\* line of O if there is one; else cell 4 if it is free; else a free corner
\* if there is one; else a free edge.  On the empty board it returns 4.
C13_MediumPriorityChain ==
  (Decided /\ difficulty = "medium" /\ empty_squares(last.pre_board) /\ NoLine(last.pre_board)) =>
    /\ last.outcome = "return"
    /\ IF Completing(last.pre_board, "X") # {}
       THEN last.move \in Completing(last.pre_board, "X")
       ELSE IF Completing(last.pre_board, "O") # {}
       THEN last.move \in Completing(last.pre_board, "O")
       ELSE IF last.pre_board[4] = Empty
       THEN last.move = 4
       ELSE IF Free(last.pre_board, {0, 2, 6, 8}) # {}
       THEN last.move \in Free(last.pre_board, {0, 2, 6, 8})
       ELSE last.move \in Free(last.pre_board, {1, 3, 5, 7})
    /\ last.pre_board = EmptyBoard => last.move = 4

\* the last step of the chain: nothing to win or block, centre and corners
\* taken, an edge returned
C13_Witness ==
  /\ Decided
  /\ difficulty = "medium"
  /\ NoLine(last.pre_board)
  /\ Completing(last.pre_board, "X") = {}
  /\ Completing(last.pre_board, "O") = {}
  /\ last.pre_board[4] # Empty
  /\ Free(last.pre_board, {0, 2, 6, 8}) = {}
  /\ last.move \in Free(last.pre_board, {1, 3, 5, 7})

\* the 8 lines, as sets of cells
Lines == {{0, 1, 2}, {3, 4, 5}, {6, 7, 8}, {0, 3, 6}, {1, 4, 7}, {2, 5, 8}, {0, 4, 8}, {2, 4, 6}}

\* C14: for a cell holding the letter, check_winner(square, letter) is true
\* exactly when a line through that cell is filled with the letter; a
\* filled diagonal that does not pass through the cell does not count.
C14_CheckWinnerThroughSquare ==
  (last.op = "check_winner" /\ board[last.square] = last.letter) =>
    (last.ret <=> \E line \in Lines :
                    last.square \in line /\ \A c \in line : board[c] = last.letter)

\* the number of cells of S holding value
Holding(b, S, value) == Cardinality({c \in S : b[c] = value})

\* what a line is worth: 10 for two of a mark and a free cell, 1 for one of
\* a mark and two free cells (minus for O), 0 for both marks or none
LineValue(b, line) ==
  LET x == Holding(b, line, "X")
      o == Holding(b, line, "O")
  IN IF o = 0 /\ x = 2 THEN 10
     ELSE IF x = 0 /\ o = 2 THEN -10
     ELSE IF o = 0 /\ x = 1 THEN 1
     ELSE IF x = 0 /\ o = 1 THEN -1
     ELSE 0

RECURSIVE SumLineValues(_, _)
SumLineValues(b, S) ==
  IF S = {} THEN 0
  ELSE LET line == CHOOSE l \in S : TRUE
       IN LineValue(b, line) + SumLineValues(b, S \ {line})

Evaluation(b) ==
  IF \E line \in Lines : Holding(b, line, "X") = 3 THEN 100
  ELSE IF \E line \in Lines : Holding(b, line, "O") = 3 THEN -100
  ELSE SumLineValues(b, Lines)
       + 3 * (Holding(b, {4}, "X") - Holding(b, {4}, "O"))
       + 2 * (Holding(b, {0, 2, 6, 8}, "X") - Holding(b, {0, 2, 6, 8}, "O"))

\* C15: on every board evaluate_board returns 100 if X has a line, else
\* -100 if O has one, else the sum of the values of the 8 lines, plus 3 for
\* X (minus 3 for O) on cell 4, plus 2 for X (minus 2 for O) on each
\* corner; and the call leaves the board, the winner and the counter as
\* they were.
C15_EvaluateBoard ==
  last.op = "evaluate_board" =>
    /\ last.ret = Evaluation(board)
    /\ current_winner = None
    /\ nodes_explored = 0

\* a board with no line where lines, centre and corners all count
C15_Witness ==
  /\ last.op = "evaluate_board"
  /\ NoLine(board)
  /\ board[4] = "O"
  /\ Holding(board, {0, 2, 6, 8}, "X") = 2
  /\ \E line \in Lines : LineValue(board, line) = 10
  /\ \E line \in Lines : LineValue(board, line) = -1
  /\ \E line \in Lines : Holding(board, line, "X") = 1 /\ Holding(board, line, "O") = 1
  /\ last.ret = Evaluation(board)
  /\ last.ret \notin {100, -100, 0}

\* the moves the Easy tier can return on board b after the draw lucky
EasyMoves(b, lucky) == {d.move : d \in get_ai_move(b, "easy", 0, lucky)}

\* C16: on a board with a free cell and no line the Easy tier returns a
\* free cell; on its lucky draw a cell completing a line of X if there is
\* one, else a cell completing a line of O if there is one; in every other
\* case the cells it can return are exactly the free cells.
C16_Easy ==
  (Decided /\ difficulty = "easy" /\ empty_squares(last.pre_board) /\ NoLine(last.pre_board)) =>
    /\ last.outcome = "return"
    /\ last.move \in Free(last.pre_board, Cells)
    /\ IF last.lucky /\ Completing(last.pre_board, "X") # {}
       THEN last.move \in Completing(last.pre_board, "X")
       ELSE IF last.lucky /\ Completing(last.pre_board, "O") # {}
       THEN last.move \in Completing(last.pre_board, "O")
       ELSE EasyMoves(last.pre_board, last.lucky) = Free(last.pre_board, Cells)

\* the unlucky draw: a win was there to take and another cell is returned
C16_Witness ==
  /\ Decided
  /\ difficulty = "easy"
  /\ NoLine(last.pre_board)
  /\ ~last.lucky
  /\ Completing(last.pre_board, "X") # {}
  /\ last.move \in Free(last.pre_board, Cells) \ Completing(last.pre_board, "X")
  /\ Cardinality(EasyMoves(last.pre_board, FALSE)) >= 3

\* a search in progress or ended, call by call
Running == last.op = "minimax_run"

\* the frames are at depths 0, 1, 2, ... and none is deeper than the number
\* of cells free at the root; the board of a call at depth d has d fewer
\* free cells than the root's (one more mark while a caller has its
\* child's value and has not yet written ' ' back)
RunDepths ==
  Running =>
    LET k == num_empty_squares(last.pre_board)
        n == Len(last.stack)
    IN /\ \A j \in 1..n : last.stack[j].depth = j - 1 /\ last.stack[j].depth <= k
       /\ n <= 10
       /\ IF n = 0 THEN board = last.pre_board
          ELSE IF Top.at = "wait"
          THEN num_empty_squares(board) = k - n
          ELSE num_empty_squares(board) = k - (n - 1)

\* a call is made only by a call on a board with a free cell and no line,
\* and on a board with one free cell fewer
RunCalls ==
  (pc = "running" /\ Len(last.stack') > Len(last.stack)) =>
    /\ NoLine(board)
    /\ empty_squares(board)
    /\ num_empty_squares(board') = num_empty_squares(board) - 1
    /\ Len(last.stack') = Len(last.stack) + 1

\* C17: every minimax call returns; on a board with k free cells the
\* recursion is never deeper than k (at most 9), each recursive call is
\* made on a board with one free cell fewer, and no call is made from a
\* board with a line or without a free cell.
C17_MinimaxTerminates ==
  /\ []RunDepths
  /\ [][RunCalls]_vars
  /\ (pc = "running") ~> (pc = "returned")

\* the search of the empty board has returned, from depth 9 and back, with
\* the value, the count and the board of minimax(0, True)
C17_Witness ==
  /\ Running
  /\ pc = "returned"
  /\ last.pre_board = EmptyBoard
  /\ last.is_maximizing
  /\ last.stack = <<>>
  /\ board = EmptyBoard
  /\ LET r == minimax(EmptyBoard, 0, TRUE, -Inf, Inf, TRUE)
     IN last.ret = <<r.score, r.move>> /\ nodes_explored = r.nodes

\* a board on which X and O each fill a line
BothLines(b) ==
  /\ \E line \in Lines : Holding(b, line, "X") = 3
  /\ \E line \in Lines : Holding(b, line, "O") = 3

\* C18: on a board where X and O each have a line, minimax at depth d
\* returns the score 10 - d and no move, and evaluate_board returns 100.
C18_XLineFirst ==
  /\ (last.op = "minimax_at" /\ BothLines(last.pre_board)) =>
       last.score = 10 - last.depth /\ last.move = -1
  /\ (last.op = "evaluate_board" /\ BothLines(board)) =>
       last.ret = 100

\* minimax called as the minimizer three plies down on such a board
C18_Witness ==
  /\ last.op = "minimax_at"
  /\ BothLines(last.pre_board)
  /\ empty_squares(last.pre_board)
  /\ ~last.is_maximizing
  /\ last.depth = 3
  /\ last.score = 7
  /\ last.move = -1
  /\ board = last.pre_board

\* a line of the board is filled with the letter
HasLine(b, letter) == \E line \in Lines : Holding(b, line, letter) = 3

\* C19: in the game loop current_winner is a letter exactly when that
\* letter has a line on the board, it is None exactly when no letter has
\* one, and X and O never both have one.
C19_WinnerAgreesWithBoard ==
  /\ \A letter \in Letters : current_winner = letter <=> HasLine(board, letter)
  /\ current_winner = None <=> (~HasLine(board, "X") /\ ~HasLine(board, "O"))
  /\ ~BothLines(board)

\* the human has won on a diagonal with the last free cell but one
C19_Witness ==
  /\ pc = "playing"
  /\ current_winner = human_player
  /\ board[0] = "O" /\ board[4] = "O" /\ board[8] = "O"
  /\ ~HasLine(board, "X")
  /\ num_empty_squares(board) = 1

\* the cells whose content a step changes
Changed == {c \in Cells : board'[c] # board[c]}

\* a game in progress or recorded: the marks are the moves counted, the
\* two letters differ by one mark at most, and there are 9 moves at most
GameCounts ==
  pc \in {"playing", "quit", "over"} =>
    /\ moves = Holding(board, Cells, "X") + Holding(board, Cells, "O")
    /\ Holding(board, Cells, "X") - Holding(board, Cells, "O") \in {-1, 0, 1}
    /\ moves <= 9
    /\ pc = "over" => (HasLine(board, "X") \/ HasLine(board, "O") \/ ~empty_squares(board))

\* a turn is played only while no line is filled and a cell is free; it
\* writes the mark of the player whose turn it is into one free cell,
\* changes no other cell and hands the turn to the other player; no other
\* step of a game in progress changes the board or the turn
GameTurns ==
  pc = "playing" =>
    IF moves' = moves + 1
    THEN /\ ~HasLine(board, "X") /\ ~HasLine(board, "O") /\ empty_squares(board)
         /\ \E c \in Cells : /\ Changed = {c}
                              /\ board[c] = Empty
                              /\ board'[c] = current_player
         /\ current_player' # current_player
         /\ current_player' \in Letters
    ELSE Changed = {} /\ current_player' = current_player /\ moves' = moves

\* C20: in every game of the loop, at any tier and whoever moves first,
\* the turns alternate, each turn fills one free cell, the numbers of X and
\* O differ by 1 at most, and the game ends, after 9 placements at most and
\* no later than the first line or the full board (or the human quits).
C20_GameEnds ==
  /\ []GameCounts
  /\ [][GameTurns]_vars
  /\ (pc = "playing") ~> (pc \in {"over", "quit"})

\* a game of 9 moves that the human opened and the Easy tier finished in
C20_Witness ==
  /\ pc = "over"
  /\ moves = 9
  /\ difficulty = "easy"
  /\ Holding(board, Cells, "O") = 5
  /\ Holding(board, Cells, "X") = 4
  /\ game_history[1].winner = "tie"
  /\ game_history[1].moves = 9

\* the game recorded last
Recorded == game_history[Len(game_history)]

\* the recorded outcome is 'X' exactly when X has a line on the final
\* board, 'O' exactly when O has one, 'tie' exactly when the board is full
\* with no line
RecordMatchesBoard ==
  pc = "over" =>
    /\ Recorded.board = board
    /\ Recorded.winner \in {"X", "O", "tie"}
    /\ Recorded.winner = "X" <=> HasLine(board, "X")
    /\ Recorded.winner = "O" <=> HasLine(board, "O")
    /\ Recorded.winner = "tie" <=>
         (~empty_squares(board) /\ ~HasLine(board, "X") /\ ~HasLine(board, "O"))

\* the step that records a game adds 1 to the counter of its outcome and
\* leaves the other two; no other step changes a counter
RecordCounts ==
  IF pc = "playing" /\ pc' = "over"
  THEN LET winner == game_history'[Len(game_history')].winner
       IN /\ ai_wins' = ai_wins + (IF winner = "X" THEN 1 ELSE 0)
          /\ human_wins' = human_wins + (IF winner = "O" THEN 1 ELSE 0)
          /\ ties' = ties + (IF winner = "tie" THEN 1 ELSE 0)
          /\ (ai_wins' + human_wins' + ties') = (ai_wins + human_wins + ties) + 1
          /\ Len(game_history') = Len(game_history) + 1
  ELSE UNCHANGED <<ai_wins, human_wins, ties, game_history>>

\* C21: when a game of the loop ends, the outcome given to record_game is
\* that of the final board (a 9th move that fills a line is a win, not a
\* tie), and exactly one of ai_wins, human_wins, ties goes up by 1.
C21_RecordedOutcome ==
  /\ []RecordMatchesBoard
  /\ [][RecordCounts]_vars

\* X filled a line with the 9th move, and the game is recorded as X's
C21_Witness ==
  /\ pc = "over"
  /\ moves = 9
  /\ ~empty_squares(board)
  /\ HasLine(board, "X")
  /\ Recorded.winner = "X"
  /\ Recorded.moves = 9
  /\ ai_wins = 1 /\ human_wins = 0 /\ ties = 0

\* C22: in a game of the loop in which X is moved by the Hard tier (its
\* opening shortcut, centre or any corner, included) and O by any legal
\* input, whoever moves first, O never has three marks in a line.
C22_HardNeverLoses ==
  difficulty = "hard" =>
    /\ ~HasLine(board, human_player)
    /\ current_winner # human_player
    /\ \A i \in 1..Len(game_history) : game_history[i].winner # human_player

\* the human opened in the centre, Hard answered from its shortcut with a
\* corner, and the game was played to the full board
C22_Witness ==
  /\ pc = "over"
  /\ difficulty = "hard"
  /\ moves = 9
  /\ board[4] = human_player
  /\ Holding(board, Cells, human_player) = 5
  /\ Holding(board, {0, 2, 6, 8}, ai_player) >= 1
  /\ Recorded.winner = "tie"

====
